---- MODULE Spec2Model ----
(***************************************************************************)
(* FlexiFocus background service worker: the timer / phase state machine,  *)
(* the persisted aggregate (timer, tasks, history, settings) and the       *)
(* chrome.alarms wake-ups, modelled from src/src/background/               *)
(* service-worker.js and src/src/shared/constants.js.                      *)
(*                                                                         *)
(* Times are milliseconds as in the code.  TLC integers are 32 bit, so the *)
(* clock starts at Epoch (far above every duration) instead of at the real *)
(* Date.now().                                                             *)
(***************************************************************************)
EXTENDS Integers, Sequences, FiniteSets

VARIABLES
    timer,      \* state.timer in chrome.storage.local
    tasks,      \* state.tasks
    history,    \* state.history, newest first
    settings,   \* settings in chrome.storage.local
    alarms,     \* chrome.alarms: .timer = `when` of ALARM_NAME (0: none), .badge = BADGE_ALARM pending
    wake,       \* ALARM_NAME events fired by the scheduler and not yet handled
    now,        \* Date.now()
    ticks,      \* number of clock advances so far (bounds the exploration)
    nextId,     \* number of task ids handed out by crypto.randomUUID()
    response,   \* what the last onMessage request was answered with: "ok" or "error"
    sent,       \* the stateUpdated payloads sent by the last handler that ran, in order
    inflight,   \* handlers that have loaded the aggregate and not yet saved it
    args,       \* the arguments of a call of a pure function
    result      \* what that call returned

vars == <<timer, tasks, history, settings, alarms, wake, now, ticks, nextId, response,
          sent, inflight, args, result>>

persisted == <<timer, tasks, history, settings>>

\* the variables that only the in-flight handlers and the pure-function calls use
apart == <<inflight, args, result>>

\* no pure function is being called
NoCall == [fn |-> "none"]

\* what loadState() reads, and what broadcastState() puts in a stateUpdated message
payload(tm, ts, h, s) == [timer |-> tm, tasks |-> ts, history |-> h, settings |-> s]

store == payload(timer, tasks, history, settings)

\* mutant of broadcastState: the message is built from the aggregate as it was before
\* the handler's write
broadcastStale(stored) == <<store>>

\* broadcastState(): one stateUpdated message whose payload is the aggregate it loads
\* from the store, which at that moment holds `stored`
broadcastState(stored) == <<stored>>

----------------------------------------------------------------------------
(* Bounds of the exploration *)

Epoch == 1000000000
MaxTicks == 1
MaxCycleTicks == 8
MaxHistory == 1
MaxTasks == 1
MaxWake == 1
MaxInflight == 1
MaxCycleCount == 7
MaxCycles == 5
MaxMinutes == 2
MaxSkew == 2
MaxLen == 1
MaxAutoTicks == 2
MaxFlowTicks == 3

----------------------------------------------------------------------------
(* constants.js *)

NULL == 0

HISTORY_MAX == 200

mkMethod(k, f, w, s, l, c) ==
    [key |-> k, flexible |-> f, workMinutes |-> w, shortBreakMinutes |-> s,
     longBreakMinutes |-> l, cyclesBeforeLongBreak |-> c]

\* fields a method does not define (undefined in JS) are 0 / FALSE here
DEFAULT_METHODS ==
    [pomodoro          |-> mkMethod("pomodoro", FALSE, 25, 5, 15, 4),
     fiftyTwoSeventeen |-> mkMethod("fiftyTwoSeventeen", FALSE, 52, 17, 17, 1),
     ultradian         |-> mkMethod("ultradian", FALSE, 90, 20, 20, 1),
     flowtime          |-> mkMethod("flowtime", TRUE, 0, 0, 0, 0),
     quick5            |-> mkMethod("quick5", FALSE, 5, 1, 1, 1),
     quick10           |-> mkMethod("quick10", FALSE, 10, 2, 2, 1),
     quick15           |-> mkMethod("quick15", FALSE, 15, 3, 3, 1),
     custom            |-> mkMethod("custom", FALSE, 30, 5, 15, 4)]

DEFAULT_SETTINGS ==
    [selectedMethod |-> "pomodoro", autoStartBreaks |-> TRUE, autoStartWork |-> TRUE,
     lockIn |-> FALSE, notifications |-> TRUE, breakEnforcement |-> FALSE, badge |-> TRUE]

DEFAULT_TIMER ==
    [methodKey |-> DEFAULT_SETTINGS.selectedMethod, phase |-> "work", isRunning |-> FALSE,
     startTime |-> 0, endTime |-> 0, remainingMs |-> 0, cycleCount |-> 0,
     completedSessions |-> 0, activeTaskId |-> NULL]

----------------------------------------------------------------------------
(* Inputs of the handlers *)

UNDEFINED == "undefined"

MethodArgs == {"pomodoro", "flowtime"}
EstimateArgs == {1, 2}

\* partial settings objects sent with updateSettings: lock-in and the two auto-start
\* flags (both at once); the collaborator switches keep their defaults
SettingsPatches ==
    {[f |-> "lockIn", v |-> TRUE], [f |-> "lockIn", v |-> FALSE],
     [f |-> "autoStart", v |-> TRUE], [f |-> "autoStart", v |-> FALSE]}


----------------------------------------------------------------------------
(* Pure helpers of service-worker.js *)

Max(a, b) == IF a >= b THEN a ELSE b

\* mutant of msFromMinutes: the clamp is forgotten
msFromMinutesUnclamped(minutes) == minutes * 60 * 1000

msFromMinutes(minutes) == Max(0, minutes) * 60 * 1000

getMethodConfig(methodKey, s) ==
    IF methodKey \in DOMAIN DEFAULT_METHODS
        THEN DEFAULT_METHODS[methodKey]
        ELSE DEFAULT_METHODS.pomodoro

computePhaseDuration(method, phase) ==
    IF method.flexible THEN 0
    ELSE IF phase = "longBreak" THEN msFromMinutes(method.longBreakMinutes)
    ELSE IF phase = "break" THEN msFromMinutes(method.shortBreakMinutes)
    ELSE msFromMinutes(method.workMinutes)

\* mutant of nextPhase: the cycle count is tested before the phase being completed
\* is counted
nextPhaseUncounted(tm, method) ==
    IF method.flexible THEN [phase |-> "flow", longBreak |-> FALSE]
    ELSE IF tm.phase = "work"
        THEN LET n == IF method.cyclesBeforeLongBreak = 0 THEN 4
                      ELSE method.cyclesBeforeLongBreak
                 longBreakDue == tm.cycleCount % n = 0
             IN  [phase |-> IF longBreakDue THEN "longBreak" ELSE "break",
                  longBreak |-> longBreakDue]
        ELSE [phase |-> "work", longBreak |-> FALSE]

nextPhase(tm, method) ==
    IF method.flexible THEN [phase |-> "flow", longBreak |-> FALSE]
    ELSE IF tm.phase = "work"
        THEN LET n == IF method.cyclesBeforeLongBreak = 0 THEN 4
                      ELSE method.cyclesBeforeLongBreak
                 longBreakDue == (tm.cycleCount + 1) % n = 0
             IN  [phase |-> IF longBreakDue THEN "longBreak" ELSE "break",
                  longBreak |-> longBreakDue]
        ELSE [phase |-> "work", longBreak |-> FALSE]

buildHistoryEntry(tm, methodKey, phase, durationMs, taskId) ==
    [methodKey |-> methodKey, phase |-> phase, durationMs |-> durationMs,
     startedAt |-> tm.startTime, endedAt |-> now, taskId |-> taskId]

\* mutant of prependHistory: the slice is forgotten
prependHistoryUncapped(entry, h) == <<entry>> \o h

\* [entry, ...history].slice(0, 200)
prependHistory(entry, h) == SubSeq(<<entry>> \o h, 1, IF Len(h) + 1 <= HISTORY_MAX THEN Len(h) + 1 ELSE HISTORY_MAX)

\* remainingMs(timer) of service-worker.js, sent with the answer to getState
remainingMs(tm) ==
    IF tm.isRunning /\ tm.endTime # 0 THEN Max(0, tm.endTime - now)
    ELSE IF tm.isRunning /\ tm.startTime # 0 THEN Max(0, now - tm.startTime)
    ELSE IF tm.endTime # 0 THEN Max(0, tm.endTime - now)
    ELSE tm.remainingMs

\* computePhaseDuration(timer, method) as computeRemaining of timer.js calls it, the
\* timer in the place of the method and the method in the place of the phase: a timer
\* has none of the fields of a method, and a method is none of the phase names, so the
\* result is msFromMinutes(undefined), which is msFromMinutes(0) by its default parameter
swappedPhaseDuration(tm, method) ==
    computePhaseDuration(mkMethod(UNDEFINED, FALSE, 0, 0, 0, 0), "[object Object]")

\* mutant of computeRemaining: the running branch is not clamped
computeRemainingUnclamped(tm, method) ==
    IF method.flexible
    THEN IF ~tm.isRunning THEN tm.remainingMs
         ELSE Max(0, now - (IF tm.startTime = 0 THEN now ELSE tm.startTime))
    ELSE IF tm.isRunning /\ tm.endTime # 0 THEN tm.endTime - now
    ELSE IF ~tm.isRunning /\ tm.remainingMs # 0 THEN tm.remainingMs
    ELSE Max(0, IF tm.endTime # 0 THEN tm.endTime - now ELSE swappedPhaseDuration(tm, method))

\* computeRemaining(timer, method) of timer.js
computeRemaining(tm, method) ==
    IF method.flexible
    THEN IF ~tm.isRunning THEN tm.remainingMs
         ELSE Max(0, now - (IF tm.startTime = 0 THEN now ELSE tm.startTime))
    ELSE IF tm.isRunning /\ tm.endTime # 0 THEN Max(0, tm.endTime - now)
    ELSE IF ~tm.isRunning /\ tm.remainingMs # 0 THEN tm.remainingMs
    ELSE Max(0, IF tm.endTime # 0 THEN tm.endTime - now ELSE swappedPhaseDuration(tm, method))

\* computeRemaining(timer, method) of the popup, called without an override
popupComputeRemaining(tm, method) ==
    IF method.flexible
    THEN IF ~tm.isRunning THEN tm.remainingMs
         ELSE Max(0, now - (IF tm.startTime = 0 THEN now ELSE tm.startTime))
    ELSE IF tm.isRunning /\ tm.endTime # 0 THEN Max(0, tm.endTime - now)
    ELSE IF ~tm.isRunning /\ tm.remainingMs # 0 THEN tm.remainingMs
    ELSE Max(0, IF tm.endTime # 0 THEN tm.endTime - now
                ELSE computePhaseDuration(method, tm.phase))

----------------------------------------------------------------------------
(* JavaScript values as mergeDefaults and validateState see them: undefined, null, a
   primitive, an array, or a mapping from keys to values; each kind has a field of its
   own, so that values of different kinds are simply unequal *)

undefined == [t |-> "undefined"]
null == [t |-> "null"]
prim(x) == [t |-> "prim", p |-> x]
array(elems) == [t |-> "array", a |-> elems]
object(fields) == [t |-> "object", o |-> fields]

emptyObject == object([k \in {} |-> undefined])

\* the name of the i-th index of an array as a key
indexKey(i) == <<"0", "1", "2", "3">>[i]

\* { ...x }: the own enumerable properties of x; none for undefined, null and the
\* primitives used here, the indices for an array
spread(x) ==
    IF x.t = "object" THEN x.o
    ELSE IF x.t = "array"
        THEN [k \in {indexKey(i) : i \in 1..Len(x.a)} |->
                prim(x.a[CHOOSE i \in 1..Len(x.a) : indexKey(i) = k])]
    ELSE [k \in {} |-> undefined]

\* x[key]
property(x, key) == IF key \in DOMAIN spread(x) THEN spread(x)[key] ELSE undefined

\* a ?? b
orElse(a, b) == IF a.t \in {"undefined", "null"} THEN b ELSE a

\* mutant of mergeDefaults: an array of current is merged with the default's array
\* when it is empty
RECURSIVE mergeDefaultsArrays(_, _)
mergeDefaultsArrays(current, defaults) ==
    LET d == spread(defaults)
        c == spread(current)
    IN  object([key \in DOMAIN d \cup DOMAIN c |->
            IF key \notin DOMAIN c THEN d[key]
            ELSE IF c[key].t = "array" /\ c[key].a = <<>> /\ key \in DOMAIN d THEN d[key]
            ELSE IF c[key].t = "object" /\ current.t = "object"
                THEN mergeDefaultsArrays(c[key], orElse(property(defaults, key), emptyObject))
            ELSE c[key]])

\* mergeDefaults(current, defaults): { ...defaults, ...current, ...acc }, where acc
\* holds, for each entry of current, the value itself when it is an array or null and
\* the recursive merge with defaults[key] ?? {} when it is another object
RECURSIVE mergeDefaults(_, _)
mergeDefaults(current, defaults) ==
    LET d == spread(defaults)
        c == spread(current)
    IN  object([key \in DOMAIN d \cup DOMAIN c |->
            IF key \notin DOMAIN c THEN d[key]
            ELSE IF c[key].t \in {"array", "null"} THEN c[key]
            ELSE IF c[key].t = "object" /\ current.t = "object"
                THEN mergeDefaults(c[key], orElse(property(defaults, key), emptyObject))
            ELSE c[key]])

\* DEFAULT_STATE as such a value (numbers and booleans by their text)
JS_DEFAULT_STATE ==
    object([key \in {"timer", "tasks", "history", "statistics"} |->
        IF key = "timer"
            THEN object([k \in DOMAIN DEFAULT_TIMER |->
                    IF k = "methodKey" THEN prim(DEFAULT_TIMER.methodKey)
                    ELSE IF k = "phase" THEN prim(DEFAULT_TIMER.phase)
                    ELSE IF k = "isRunning" THEN prim("false")
                    ELSE IF k = "activeTaskId" THEN null
                    ELSE prim("0")])
        ELSE IF key = "statistics"
            THEN object([k \in {"totalSessions", "totalFocusTime", "totalBreakTime",
                                 "longestSession", "currentStreak", "longestStreak",
                                 "lastSessionDate"} |->
                    IF k = "lastSessionDate" THEN null ELSE prim("0")])
        ELSE array(<<>>)])

\* validateState(state).valid of services/state.js; typeof is 'object' for arrays too
validateState(state) ==
    /\ state.t \in {"object", "array"}
    /\ property(state, "timer").t \in {"object", "array"}
    /\ property(state, "tasks").t = "array"
    /\ property(state, "history").t = "array"

\* loadState() of services/storage.js, the store holding `stored` under the key state
loadState(stored) ==
    IF stored.t \in {"undefined", "null"} THEN stored
    ELSE IF validateState(stored) THEN stored
    ELSE undefined

\* initializeState(stateOverrides = {}, ...).state
initializeState(stateOverrides) ==
    mergeDefaults(IF stateOverrides.t = "undefined" THEN emptyObject ELSE stateOverrides,
                  JS_DEFAULT_STATE)

\* { ...x, ...updates }
withProperties(x, updates) ==
    object([key \in DOMAIN spread(x) \cup DOMAIN updates |->
                IF key \in DOMAIN updates THEN updates[key] ELSE spread(x)[key]])

\* the state a handler of messages/handlers.js builds from defaults.state; a task is
\* known by its id, message.id is t1 and the id of a new task is new
updatedState(type, state) ==
    LET tasks_ == property(state, "tasks")
        timer_ == property(state, "timer")
        set(key, value) == withProperties(state, [k \in {key} |-> value])
    IN  CASE type = "addTask" -> set("tasks", array(<<"new">> \o tasks_.a))
          [] type = "updateTask" -> set("tasks", tasks_)
          [] type = "deleteTask" ->
                set("tasks", array(SelectSeq(tasks_.a, LAMBDA task : task # "t1")))
          [] type = "setActiveTask" ->
                set("timer", withProperties(timer_, [k \in {"activeTaskId"} |-> prim("t1")]))
          [] type = "setMethod" ->
                set("timer", withProperties(timer_,
                        [k \in {"methodKey", "phase"} |->
                            IF k = "methodKey" THEN prim("flowtime") ELSE prim("work")]))
          [] OTHER -> state

\* a handler of messages/handlers.js serving a request of this type over the store:
\* storage.loadStateAndSettings, initializeState, the change, storage.saveState (which
\* throws on a state that fails validateState); state is what is answered (getState)
\* or saved
serve(type, stored) ==
    LET defaults == initializeState(loadState(stored))
        updated == updatedState(type, defaults)
    IN  IF type = "getState" THEN [response |-> "ok", state |-> defaults]
        ELSE IF validateState(updated) THEN [response |-> "ok", state |-> updated]
        ELSE [response |-> "error", state |-> stored]

----------------------------------------------------------------------------

ensureBadgeUpdates(al, s) ==
    IF s.badge THEN [al EXCEPT !.badge = TRUE] ELSE al

----------------------------------------------------------------------------

Init ==
    /\ timer = DEFAULT_TIMER
    /\ tasks = <<>>
    /\ history = <<>>
    /\ settings = DEFAULT_SETTINGS
    /\ alarms = [timer |-> 0, badge |-> FALSE]
    /\ wake = 0
    /\ now = Epoch
    /\ ticks = 0
    /\ nextId = 0
    /\ response = "ok"
    /\ sent = <<>>
    /\ inflight = {}
    /\ args = NoCall
    /\ result = NoCall

----------------------------------------------------------------------------
(* Timer lifecycle: what each operation leaves in the store and in chrome.alarms *)

\* mutant of startTimer: a flexible start leaves the pending wake-up alone
startTimerKeepsAlarm(tm, s, al, methodKey, phaseOverride) ==
    LET method == getMethodConfig(IF methodKey = UNDEFINED THEN tm.methodKey ELSE methodKey, s)
        phase == IF phaseOverride = UNDEFINED THEN tm.phase ELSE phaseOverride
        endTime == now + computePhaseDuration(method, phase)
    IN  IF method.flexible
        THEN [timer |-> [tm EXCEPT !.methodKey = method.key, !.phase = "flow",
                                   !.isRunning = TRUE, !.startTime = now,
                                   !.endTime = 0, !.remainingMs = 0],
              alarms |-> ensureBadgeUpdates(al, s)]
        ELSE [timer |-> [tm EXCEPT !.methodKey = method.key, !.phase = phase,
                                   !.isRunning = TRUE, !.startTime = now,
                                   !.endTime = endTime, !.remainingMs = 0],
              alarms |-> ensureBadgeUpdates([al EXCEPT !.timer = endTime], s)]

\* startTimer(methodKey, phaseOverride) run on stored timer tm, settings s, alarms al
startTimer(tm, s, al, methodKey, phaseOverride) ==
    LET method == getMethodConfig(IF methodKey = UNDEFINED THEN tm.methodKey ELSE methodKey, s)
        phase == IF phaseOverride = UNDEFINED THEN tm.phase ELSE phaseOverride
        durationMs == computePhaseDuration(method, phase)
        endTime == now + durationMs
    IN  IF method.flexible
        THEN [timer |-> [tm EXCEPT !.methodKey = method.key, !.phase = "flow",
                                   !.isRunning = TRUE, !.startTime = now,
                                   !.endTime = 0, !.remainingMs = 0],
              alarms |-> ensureBadgeUpdates([al EXCEPT !.timer = 0], s)]
        ELSE [timer |-> [tm EXCEPT !.methodKey = method.key, !.phase = phase,
                                   !.isRunning = TRUE, !.startTime = now,
                                   !.endTime = endTime, !.remainingMs = 0],
              alarms |-> ensureBadgeUpdates([al EXCEPT !.timer = endTime], s)]

StartTimer(methodKey, phaseOverride) ==
    LET r == startTimer(timer, settings, alarms, methodKey, phaseOverride)
    IN  /\ timer' = r.timer
        /\ alarms' = r.alarms
        /\ response' = "ok"
        /\ UNCHANGED <<tasks, history, settings, wake, now, ticks, nextId>>
        /\ sent' = broadcastState(store')
        /\ UNCHANGED apart

\* mutant of pauseBlocked: the phase test is inverted
pauseBlockedOffWork(tm, s) ==
    s.lockIn /\ tm.phase # "work" /\ ~getMethodConfig(tm.methodKey, s).flexible

\* the lock-in test of pauseTimer
pauseBlocked(tm, s) ==
    s.lockIn /\ tm.phase = "work" /\ ~getMethodConfig(tm.methodKey, s).flexible

\* mutant of pausedRemaining: the two kinds of method are exchanged
pausedRemainingSwapped(tm, s) ==
    IF ~getMethodConfig(tm.methodKey, s).flexible
        THEN Max(0, now - (IF tm.startTime = 0 THEN now ELSE tm.startTime))
        ELSE Max(0, tm.endTime - now)

pausedRemaining(tm, s) ==
    IF getMethodConfig(tm.methodKey, s).flexible
        THEN Max(0, now - (IF tm.startTime = 0 THEN now ELSE tm.startTime))
        ELSE Max(0, tm.endTime - now)

\* the timer pauseTimer builds from the running timer it loaded
pausedTimer(tm, s) ==
    [tm EXCEPT !.isRunning = FALSE, !.remainingMs = pausedRemaining(tm, s),
               !.startTime = 0, !.endTime = 0]

PauseTimer ==
    IF ~timer.isRunning
    THEN /\ response' = "ok"
         /\ UNCHANGED <<timer, tasks, history, settings, alarms, wake, now, ticks, nextId>>
         /\ sent' = <<>>
         /\ UNCHANGED apart
    ELSE IF pauseBlocked(timer, settings)
    THEN /\ response' = "error"
         /\ UNCHANGED <<timer, tasks, history, settings, alarms, wake, now, ticks, nextId>>
         /\ sent' = <<>>
         /\ UNCHANGED apart
    ELSE /\ timer' = pausedTimer(timer, settings)
         /\ alarms' = [timer |-> 0, badge |-> FALSE]
         /\ response' = "ok"
         /\ UNCHANGED <<tasks, history, settings, wake, now, ticks, nextId>>
         /\ sent' = broadcastState(store')
         /\ UNCHANGED apart

\* state.timer.remainingMs || computePhaseDuration(method, state.timer.phase)
resumeBase(tm, method) ==
    IF tm.remainingMs # 0 THEN tm.remainingMs ELSE computePhaseDuration(method, tm.phase)

\* mutant of resumeTimer: a flexible timer is resumed as if it had just been started
resumeTimerFromNow(tm, s, al) ==
    LET method == getMethodConfig(tm.methodKey, s)
        endTime == now + resumeBase(tm, method)
    IN  IF method.flexible
        THEN [timer |-> [tm EXCEPT !.isRunning = TRUE, !.startTime = now,
                                   !.endTime = 0, !.remainingMs = Max(0, tm.remainingMs)],
              alarms |-> ensureBadgeUpdates(al, s)]
        ELSE [timer |-> [tm EXCEPT !.isRunning = TRUE, !.startTime = now,
                                   !.endTime = endTime, !.remainingMs = 0],
              alarms |-> ensureBadgeUpdates([al EXCEPT !.timer = endTime], s)]

resumeTimer(tm, s, al) ==
    LET method == getMethodConfig(tm.methodKey, s)
        elapsed == Max(0, tm.remainingMs)
        endTime == now + resumeBase(tm, method)
    IN  IF method.flexible
        THEN [timer |-> [tm EXCEPT !.isRunning = TRUE, !.startTime = now - elapsed,
                                   !.endTime = 0, !.remainingMs = elapsed],
              alarms |-> ensureBadgeUpdates(al, s)]
        ELSE [timer |-> [tm EXCEPT !.isRunning = TRUE, !.startTime = now,
                                   !.endTime = endTime, !.remainingMs = 0],
              alarms |-> ensureBadgeUpdates([al EXCEPT !.timer = endTime], s)]

ResumeTimer ==
    LET r == resumeTimer(timer, settings, alarms)
    IN  /\ timer' = r.timer
        /\ alarms' = r.alarms
        /\ response' = "ok"
        /\ UNCHANGED <<tasks, history, settings, wake, now, ticks, nextId>>
        /\ sent' = broadcastState(store')
        /\ UNCHANGED apart

\* the lock-in test of resetTimer
resetBlocked(tm, s) ==
    s.lockIn /\ tm.phase = "work" /\ tm.isRunning

\* mutant of ResetTimer: the counted sessions and the active task survive the reset
ResetTimerKeepsProgress ==
    IF resetBlocked(timer, settings)
    THEN /\ response' = "error"
         /\ UNCHANGED <<timer, tasks, history, settings, alarms, wake, now, ticks, nextId>>
         /\ sent' = <<>>
         /\ UNCHANGED apart
    ELSE /\ timer' = [DEFAULT_TIMER EXCEPT !.methodKey = settings.selectedMethod,
                                           !.completedSessions = timer.completedSessions,
                                           !.activeTaskId = timer.activeTaskId]
         /\ alarms' = [timer |-> 0, badge |-> FALSE]
         /\ response' = "ok"
         /\ UNCHANGED <<tasks, history, settings, wake, now, ticks, nextId>>
         /\ sent' = broadcastState(store')
         /\ UNCHANGED apart

ResetTimer ==
    IF resetBlocked(timer, settings)
    THEN /\ response' = "error"
         /\ UNCHANGED <<timer, tasks, history, settings, alarms, wake, now, ticks, nextId>>
         /\ sent' = <<>>
         /\ UNCHANGED apart
    ELSE /\ timer' = [DEFAULT_TIMER EXCEPT !.methodKey = settings.selectedMethod]
         /\ alarms' = [timer |-> 0, badge |-> FALSE]
         /\ response' = "ok"
         /\ UNCHANGED <<tasks, history, settings, wake, now, ticks, nextId>>
         /\ sent' = broadcastState(store')
         /\ UNCHANGED apart

\* mutant of flowCompletable: the method test is forgotten
flowCompletableAnyMethod(tm) == tm.isRunning

\* the guard of completeFlowtime
flowCompletable(tm) == tm.isRunning /\ tm.methodKey = "flowtime"

\* chrome.alarms after completeFlowtime
flowAlarms(al) == [al EXCEPT !.badge = FALSE]

\* notifyThrows: chrome.notifications.create rejects
CompleteFlowtime(notifyThrows) ==
    IF ~flowCompletable(timer)
    THEN /\ response' = "ok"
         /\ UNCHANGED <<timer, tasks, history, settings, alarms, wake, now, ticks, nextId>>
         /\ sent' = <<>>
         /\ UNCHANGED apart
    ELSE LET durationMs == Max(1, now - timer.startTime)
             entry == buildHistoryEntry(timer, "flowtime", "flow", durationMs, timer.activeTaskId)
         IN  /\ history' = prependHistory(entry, history)
             /\ timer' = [timer EXCEPT !.isRunning = FALSE, !.startTime = 0, !.endTime = 0,
                                       !.remainingMs = 0, !.phase = "break"]
             /\ alarms' = flowAlarms(alarms)
             \* maybeNotify runs after the save; its rejection only reaches the response
             /\ response' = IF settings.notifications /\ notifyThrows THEN "error" ELSE "ok"
             /\ UNCHANGED <<tasks, settings, wake, now, ticks, nextId>>
             /\ sent' = broadcastState(store')
             /\ UNCHANGED apart

----------------------------------------------------------------------------
(* Phase completion: chrome.alarms.onAlarm -> handleAlarm *)

\* the task list updateTaskProgress(previousState, timer) writes, given the list it loads
updateTaskProgress(prevTimer, stored) ==
    IF prevTimer.activeTaskId = NULL \/ prevTimer.phase # "work" THEN stored
    ELSE [i \in 1..Len(stored) |->
            IF stored[i].id # prevTimer.activeTaskId THEN stored[i]
            ELSE [stored[i] EXCEPT !.completedSessions = @ + 1,
                                   !.done = @ \/ (stored[i].completedSessions + 1 >= stored[i].estimate)]]

\* mutant of completedTimer: every completed phase is counted as a session
completedTimerCountsAll(tm, method) ==
    LET next == nextPhase(tm, method)
    IN  [tm EXCEPT !.isRunning = FALSE, !.startTime = 0, !.endTime = 0, !.remainingMs = 0,
                   !.phase = next.phase,
                   !.completedSessions = @ + 1]

\* the timer handleAlarm builds from the running snapshot tm
completedTimer(tm, method) ==
    LET incrementedCycle == IF tm.phase = "work" THEN tm.cycleCount + 1 ELSE tm.cycleCount
        next == nextPhase(tm, method)
    IN  [tm EXCEPT !.isRunning = FALSE, !.startTime = 0, !.endTime = 0, !.remainingMs = 0,
                   !.phase = next.phase,
                   !.cycleCount = IF next.phase = "work" THEN incrementedCycle ELSE tm.cycleCount,
                   !.completedSessions = IF tm.phase = "work" THEN @ + 1 ELSE @]

\* mutant of shouldStart: each phase reads the other phase's setting
shouldStartSwapped(tm, s) ==
    (tm.phase = "work" /\ s.autoStartBreaks) \/ (tm.phase # "work" /\ s.autoStartWork)

shouldStart(tm, s) ==
    (tm.phase = "work" /\ s.autoStartWork) \/ (tm.phase # "work" /\ s.autoStartBreaks)

\* maybeNotify has no try/catch: a rejected chrome.notifications.create ends the handler
notifyAborts(s, notifyThrows) == s.notifications /\ notifyThrows

\* enforceBreak catches and logs a rejected chrome.tabs.create: it never ends the handler
enforceBreakAborts(phase, s, tabThrows) ==
    s.breakEnforcement /\ phase \in {"break", "longBreak"} /\ tabThrows /\ FALSE

\* mutant of staleWakeup: the guard is forgotten
staleWakeupUnchecked(tm) == FALSE

\* the "still running" guard of handleAlarm: a wake-up for a timer that no longer runs
staleWakeup(tm) == ~tm.isRunning

\* the scheduler fires the one-shot ALARM_NAME once its `when` has come, and drops it
FireAlarm ==
    /\ alarms.timer # 0
    /\ alarms.timer <= now
    /\ wake < MaxWake
    /\ alarms' = [alarms EXCEPT !.timer = 0]
    /\ wake' = wake + 1
    /\ UNCHANGED <<timer, tasks, history, settings, now, ticks, nextId, response, sent>>
    /\ UNCHANGED apart

\* handleAlarm(ALARM_NAME); notifyThrows, tabThrows: chrome.notifications.create,
\* chrome.tabs.create reject
HandleAlarm(notifyThrows, tabThrows) ==
    /\ wake > 0
    /\ wake' = wake - 1
    /\ UNCHANGED <<settings, now, ticks, nextId, response>>
    /\ UNCHANGED apart
    /\ IF staleWakeup(timer)
       THEN UNCHANGED <<timer, tasks, history, alarms>> /\ sent' = <<>>
       ELSE LET method == getMethodConfig(timer.methodKey, settings)
                durationMs == Max(0, timer.endTime - timer.startTime)
                entry == buildHistoryEntry(timer, method.key, timer.phase, durationMs,
                                           timer.activeTaskId)
                next == nextPhase(timer, method)
                tm == completedTimer(timer, method)
                loaded == store
                newState == [loaded EXCEPT !.timer = tm, !.history = prependHistory(entry, history)]
                cleared == [alarms EXCEPT !.timer = 0]
                \* the aggregates written to the store, in order: updateTaskProgress
                \* saves its own load with the new task list, then newState is saved whole
                writes == << [loaded EXCEPT !.tasks = updateTaskProgress(timer, tasks)], newState >>
                stored == writes[Len(writes)]
                \* updateTaskProgress returns before its load unless a task's work phase ended
                progress == IF timer.activeTaskId = NULL \/ timer.phase # "work"
                            THEN <<>> ELSE broadcastState(writes[1])
                started == startTimer(stored.timer, settings, cleared, method.key, tm.phase)
            IN  IF notifyAborts(settings, notifyThrows)
                   \/ enforceBreakAborts(next.phase, settings, tabThrows)
                THEN /\ alarms' = cleared
                     /\ UNCHANGED <<timer, tasks, history>>
                     /\ sent' = <<>>
                ELSE /\ tasks' = stored.tasks
                     /\ history' = stored.history
                     /\ IF shouldStart(tm, settings) /\ ~method.flexible
                        THEN /\ timer' = started.timer
                             /\ alarms' = started.alarms
                             /\ sent' = progress \o broadcastState(stored)
                                             \o broadcastState([stored EXCEPT !.timer = started.timer])
                        ELSE /\ timer' = stored.timer
                             /\ alarms' = cleared
                             /\ sent' = progress \o broadcastState(stored)

\* handleAlarm(BADGE_ALARM): only the badge text is refreshed; the alarm is periodic
HandleBadgeAlarm ==
    /\ alarms.badge
    /\ UNCHANGED <<timer, tasks, history, settings, alarms, wake, now, ticks, nextId, response, sent>>
    /\ UNCHANGED apart

----------------------------------------------------------------------------
(* The other commands of chrome.runtime.onMessage *)

\* mutant of SetMethod: a running timer is stopped and its wake-up cancelled
SetMethodStops(methodKey) ==
    /\ timer' = [timer EXCEPT !.methodKey = methodKey, !.phase = "work", !.isRunning = FALSE,
                              !.startTime = 0, !.endTime = 0]
    /\ settings' = [settings EXCEPT !.selectedMethod = methodKey]
    /\ alarms' = [alarms EXCEPT !.timer = 0]
    /\ response' = "ok"
    /\ UNCHANGED <<tasks, history, wake, now, ticks, nextId>>
    /\ sent' = broadcastState(store')
    /\ UNCHANGED apart

SetMethod(methodKey) ==
    /\ timer' = [timer EXCEPT !.methodKey = methodKey, !.phase = "work"]
    /\ settings' = [settings EXCEPT !.selectedMethod = methodKey]
    /\ response' = "ok"
    /\ UNCHANGED <<tasks, history, alarms, wake, now, ticks, nextId>>
    /\ sent' = broadcastState(store')
    /\ UNCHANGED apart

\* mergeDefaults(message.settings, settings) for a one-key (autoStart: two-key) patch
patched(s, p) ==
    IF p.f = "lockIn" THEN [s EXCEPT !.lockIn = p.v]
    ELSE IF p.f = "autoStart" THEN [s EXCEPT !.autoStartWork = p.v, !.autoStartBreaks = p.v]
    ELSE IF p.f = "autoStartWork" THEN [s EXCEPT !.autoStartWork = p.v]
    ELSE IF p.f = "autoStartBreaks" THEN [s EXCEPT !.autoStartBreaks = p.v]
    ELSE IF p.f = "notifications" THEN [s EXCEPT !.notifications = p.v]
    ELSE IF p.f = "breakEnforcement" THEN [s EXCEPT !.breakEnforcement = p.v]
    ELSE [s EXCEPT !.badge = p.v]

UpdateSettings(p) ==
    /\ settings' = patched(settings, p)
    /\ response' = "ok"
    /\ UNCHANGED <<timer, tasks, history, alarms, wake, now, ticks, nextId>>
    /\ sent' = broadcastState(store')
    /\ UNCHANGED apart

AddTask(estimate) ==
    /\ nextId < MaxTasks
    /\ nextId' = nextId + 1
    /\ tasks' = << [id |-> nextId + 1, estimate |-> estimate, completedSessions |-> 0,
                    done |-> FALSE] >> \o tasks
    /\ response' = "ok"
    /\ UNCHANGED <<timer, history, settings, alarms, wake, now, ticks>>
    /\ sent' = broadcastState(store')
    /\ UNCHANGED apart

SetActiveTask(id) ==
    /\ timer' = [timer EXCEPT !.activeTaskId = id]
    /\ response' = "ok"
    /\ UNCHANGED <<tasks, history, settings, alarms, wake, now, ticks, nextId>>
    /\ sent' = broadcastState(store')
    /\ UNCHANGED apart

UpdateTask(id, updates) ==
    /\ tasks' = [i \in 1..Len(tasks) |->
                    IF tasks[i].id # id THEN tasks[i]
                    ELSE [k \in DOMAIN tasks[i] |->
                            IF k \in DOMAIN updates THEN updates[k] ELSE tasks[i][k]]]
    /\ response' = "ok"
    /\ UNCHANGED <<timer, history, settings, alarms, wake, now, ticks, nextId>>
    /\ sent' = broadcastState(store')
    /\ UNCHANGED apart

DeleteTask(id) ==
    /\ tasks' = SelectSeq(tasks, LAMBDA t : t.id # id)
    /\ response' = "ok"
    /\ UNCHANGED <<timer, history, settings, alarms, wake, now, ticks, nextId>>
    /\ sent' = broadcastState(store')
    /\ UNCHANGED apart

\* getState answers with the loaded aggregate and writes nothing
GetState ==
    /\ response' = "ok"
    /\ sent' = <<>>
    /\ UNCHANGED <<timer, tasks, history, settings, alarms, wake, now, ticks, nextId>>
    /\ UNCHANGED apart

\* sendResponse({ error: 'Unknown message' })
UNKNOWN_MESSAGE == "Unknown message"

\* mutant of UnknownMessage: the default case falls through to a reset
UnknownMessageResets ==
    /\ timer' = [DEFAULT_TIMER EXCEPT !.methodKey = settings.selectedMethod]
    /\ alarms' = [timer |-> 0, badge |-> FALSE]
    /\ response' = UNKNOWN_MESSAGE
    /\ sent' = <<>>
    /\ UNCHANGED <<tasks, history, settings, wake, now, ticks, nextId>>
    /\ UNCHANGED apart

\* the default case of the switch
UnknownMessage ==
    /\ response' = UNKNOWN_MESSAGE
    /\ sent' = <<>>
    /\ UNCHANGED <<timer, tasks, history, settings, alarms, wake, now, ticks, nextId>>
    /\ UNCHANGED apart

\* the request types of the command protocol
ProtocolTypes ==
    {"getState", "startTimer", "pauseTimer", "resumeTimer", "resetTimer", "completeFlowtime",
     "setMethod", "updateSettings", "addTask", "updateTask", "deleteTask", "setActiveTask"}

TaskUpdates == {[done |-> TRUE]}

\* the requests a popup or an options page sends, and two of no known type
Messages ==
    {[type |-> t] : t \in {"getState", "pauseTimer", "resumeTimer", "resetTimer",
                           "completeFlowtime", "ping", UNDEFINED}}
    \cup {[type |-> "startTimer", methodKey |-> m, phase |-> UNDEFINED] :
            m \in MethodArgs \cup {UNDEFINED}}
    \cup {[type |-> "setMethod", methodKey |-> m] : m \in MethodArgs}
    \cup {[type |-> "updateSettings", settings |-> p] :
            p \in {q \in SettingsPatches : q.f = "lockIn"}}
    \cup {[type |-> "addTask", estimate |-> 0]}
    \cup {[type |-> "updateTask", id |-> i, updates |-> u] : i \in 1..MaxTasks, u \in TaskUpdates}
    \cup {[type |-> t, id |-> i] : t \in {"deleteTask", "setActiveTask"}, i \in 1..MaxTasks}

\* chrome.runtime.onMessage listener of service-worker.js: the switch on message.type
OnMessage(message) ==
    CASE message.type = "getState" -> GetState
      [] message.type = "startTimer" -> StartTimer(message.methodKey, message.phase)
      [] message.type = "pauseTimer" -> PauseTimer
      [] message.type = "resumeTimer" -> ResumeTimer
      [] message.type = "resetTimer" -> ResetTimer
      [] message.type = "completeFlowtime" ->
            \E notifyThrows \in BOOLEAN : CompleteFlowtime(notifyThrows)
      [] message.type = "setMethod" -> SetMethod(message.methodKey)
      [] message.type = "updateSettings" -> UpdateSettings(message.settings)
      [] message.type = "addTask" -> AddTask(message.estimate)
      [] message.type = "updateTask" -> UpdateTask(message.id, message.updates)
      [] message.type = "deleteTask" -> DeleteTask(message.id)
      [] message.type = "setActiveTask" -> SetActiveTask(message.id)
      [] OTHER -> UnknownMessage

\* throw new Error(`Unknown message type: ${message.type}`), answered as { error }
UNKNOWN_TYPE == "Unknown message type"

UnknownType ==
    /\ response' = UNKNOWN_TYPE
    /\ sent' = <<>>
    /\ UNCHANGED <<timer, tasks, history, settings, alarms, wake, now, ticks, nextId>>
    /\ UNCHANGED apart

\* the keys of MESSAGE_HANDLERS in messages/handlers.js
MESSAGE_HANDLERS ==
    {"getState", "addTask", "updateTask", "deleteTask", "setActiveTask", "setMethod",
     "updateSettings"}

\* dispatchMessage of messages/handlers.js, on a stored aggregate that is valid
dispatchMessage(message) ==
    IF message.type \notin MESSAGE_HANDLERS THEN UnknownType
    ELSE CASE message.type = "getState" -> GetState
           [] message.type = "addTask" -> AddTask(Max(1, message.estimate))
           [] message.type = "updateTask" -> UpdateTask(message.id, message.updates)
           [] message.type = "deleteTask" -> DeleteTask(message.id)
           [] message.type = "setActiveTask" -> SetActiveTask(message.id)
           [] message.type = "setMethod" -> SetMethod(message.methodKey)
           [] message.type = "updateSettings" -> UpdateSettings(message.settings)

\* chrome.runtime.onMessage listener of the service worker that delegates to handlers.js
OnMessageDelegated(message) ==
    IF message.type = "getState" THEN GetState ELSE dispatchMessage(message)

----------------------------------------------------------------------------
(* Handlers that overlap: each awaits loadState(), and later awaits saveState() with the
   aggregate it built from what it loaded; other handlers run in between *)

\* mutant of written: only the part the handler changed is taken from its own load
writtenMerged(h) ==
    IF h.op = "addTask" THEN [store EXCEPT !.tasks = <<h.task>> \o h.loaded.tasks]
    ELSE [store EXCEPT !.timer = h.timer]

\* the aggregate the in-flight handler h passes to saveAndBroadcast
written(h) ==
    IF h.op = "addTask" THEN [h.loaded EXCEPT !.tasks = <<h.task>> \o h.loaded.tasks]
    ELSE [h.loaded EXCEPT !.timer = h.timer]

\* addTask up to its first await: the aggregate is loaded and the task built
BeginAddTask(estimate) ==
    /\ Cardinality(inflight) < MaxInflight
    /\ nextId < MaxTasks
    /\ nextId' = nextId + 1
    /\ inflight' = inflight \cup
            {[op |-> "addTask", loaded |-> store,
              task |-> [id |-> nextId + 1, estimate |-> estimate, completedSessions |-> 0,
                        done |-> FALSE]]}
    /\ UNCHANGED <<timer, tasks, history, settings, alarms, wake, now, ticks, response, sent,
                   args, result>>

\* pauseTimer up to its first await, when it goes on to pause: the aggregate is loaded
\* and the paused timer built
BeginPauseTimer ==
    /\ Cardinality(inflight) < MaxInflight
    /\ timer.isRunning
    /\ ~pauseBlocked(timer, settings)
    /\ inflight' = inflight \cup
            {[op |-> "pauseTimer", loaded |-> store, timer |-> pausedTimer(timer, settings)]}
    /\ UNCHANGED <<timer, tasks, history, settings, alarms, wake, now, ticks, nextId, response,
                   sent, args, result>>

\* the rest of the in-flight handler h: pauseTimer clears both alarms; saveAndBroadcast
End(h) ==
    /\ h \in inflight
    /\ inflight' = inflight \ {h}
    /\ timer' = written(h).timer
    /\ tasks' = written(h).tasks
    /\ history' = written(h).history
    /\ settings' = written(h).settings
    /\ alarms' = IF h.op = "pauseTimer" THEN [timer |-> 0, badge |-> FALSE] ELSE alarms
    /\ response' = "ok"
    /\ sent' = broadcastState(store')
    /\ UNCHANGED <<wake, now, ticks, nextId, args, result>>

----------------------------------------------------------------------------
(* The clock *)

\* the clock moves on by d ms, at most limit times in a run
Advance(d, limit) ==
    /\ ticks < limit
    /\ d > 0
    /\ now' = now + d
    /\ ticks' = ticks + 1
    /\ UNCHANGED <<timer, tasks, history, settings, alarms, wake, nextId, response, sent>>
    /\ UNCHANGED apart

\* one minute, or up to the instant the pending phase-completion alarm is due
Delays == {msFromMinutes(1), alarms.timer - now}

\* entries appended since Init are fewer than MaxHistory
HistoryRoom == Cardinality({i \in 1..Len(history) : history[i].endedAt >= Epoch}) < MaxHistory

(* The timer lifecycle under the lock-in setting (auto-start: NextCycle) *)
Next ==
    \/ \E m \in MethodArgs \cup {UNDEFINED} : StartTimer(m, UNDEFINED)
    \/ PauseTimer
    \/ ResumeTimer
    \/ ResetTimer
    \/ \E nt \in BOOLEAN : HistoryRoom /\ CompleteFlowtime(nt)
    \/ FireAlarm
    \/ \E nt \in BOOLEAN, tt \in BOOLEAN : HistoryRoom /\ HandleAlarm(nt, tt)
    \/ HandleBadgeAlarm
    \/ \E m \in MethodArgs : SetMethod(m)
    \/ \E p \in SettingsPatches : p.f = "lockIn" /\ UpdateSettings(p)
    \/ \E d \in Delays : Advance(d, MaxTicks)

Spec == Init /\ [][Next]_vars

(* The timer lifecycle with a task list, under the default settings *)
NextTasks ==
    \/ \E e \in EstimateArgs : AddTask(e)
    \/ \E id \in 0..MaxTasks : SetActiveTask(id)
    \/ \E m \in MethodArgs : StartTimer(m, UNDEFINED)
    \/ PauseTimer
    \/ ResumeTimer
    \/ \E nt \in BOOLEAN : HistoryRoom /\ CompleteFlowtime(nt)
    \/ FireAlarm
    \/ \E nt \in BOOLEAN, tt \in BOOLEAN : HistoryRoom /\ HandleAlarm(nt, tt)
    \/ \E d \in Delays : Advance(d, MaxTicks)

SpecTasks == Init /\ [][NextTasks]_vars

(* Pomodoro cycles run to completion: the clock only moves to the next due alarm *)
NextCycle ==
    \/ StartTimer(UNDEFINED, UNDEFINED)
    \/ \E p \in SettingsPatches : p.f = "autoStart" /\ UpdateSettings(p)
    \/ Advance(alarms.timer - now, MaxCycleTicks)
    \/ FireAlarm
    \/ HandleAlarm(FALSE, FALSE)

SpecCycle == Init /\ [][NextCycle]_vars

\* partial settings objects that set one of the two auto-start flags
AutoStartPatches ==
    {[f |-> k, v |-> b] : k \in {"autoStartWork", "autoStartBreaks"}, b \in BOOLEAN}

(* Phase completion under each of the two auto-start settings and either kind of method;
   the clock only moves to the next due alarm *)
NextAuto ==
    \/ StartTimer(UNDEFINED, UNDEFINED)
    \/ \E m \in MethodArgs : SetMethod(m)
    \/ \E p \in AutoStartPatches : UpdateSettings(p)
    \/ Advance(alarms.timer - now, MaxAutoTicks)
    \/ FireAlarm
    \/ HandleAlarm(FALSE, FALSE)

SpecAuto == Init /\ [][NextAuto]_vars

\* the id argument of setActiveTask: none, or the first task
TaskIdArgs == {NULL, 1}

\* the phase argument of startTimer: none, or a break started out of turn
PhaseArgs == {UNDEFINED, "break"}

(* Every operation that writes the timer except resetTimer, under the default settings *)
NextSessions ==
    \/ \E ph \in PhaseArgs : StartTimer(UNDEFINED, ph)
    \/ PauseTimer
    \/ ResumeTimer
    \/ HistoryRoom /\ CompleteFlowtime(FALSE)
    \/ \E m \in MethodArgs : SetMethod(m)
    \/ SetActiveTask(1)
    \/ Advance(alarms.timer - now, MaxTicks)
    \/ FireAlarm
    \/ HistoryRoom /\ HandleAlarm(FALSE, FALSE)

SpecSessions == Init /\ [][NextSessions]_vars

(* startTimer with every argument, on timers that have a task, a method of either kind,
   a completed session or a phase under way *)
NextStart ==
    \/ \E m \in MethodArgs \cup {UNDEFINED}, ph \in PhaseArgs : StartTimer(m, ph)
    \/ \E e \in EstimateArgs : AddTask(e)
    \/ SetActiveTask(1)
    \/ Advance(alarms.timer - now, MaxTicks)
    \/ FireAlarm
    \/ HistoryRoom /\ HandleAlarm(FALSE, FALSE)

SpecStart == Init /\ [][NextStart]_vars

(* pauseTimer, resetTimer and setMethod on timers that have a task, a completed session,
   a history entry or a phase under way, with and without lock-in *)
NextFrame ==
    \/ \E m \in MethodArgs : StartTimer(m, UNDEFINED)
    \/ PauseTimer
    \/ ResetTimer
    \/ \E m \in MethodArgs : SetMethod(m)
    \/ \E p \in SettingsPatches : p.f = "lockIn" /\ UpdateSettings(p)
    \/ AddTask(1)
    \/ SetActiveTask(1)
    \/ \E d \in Delays : Advance(d, MaxTicks)
    \/ FireAlarm
    \/ HistoryRoom /\ HandleAlarm(FALSE, FALSE)

SpecFrame == Init /\ [][NextFrame]_vars

(* Flowtime sessions that are paused, resumed and completed, a minute at a time *)
NextFlow ==
    \/ StartTimer("flowtime", UNDEFINED)
    \/ PauseTimer
    \/ ResumeTimer
    \/ HistoryRoom /\ CompleteFlowtime(FALSE)
    \/ SetActiveTask(1)
    \/ Advance(msFromMinutes(1), MaxFlowTicks)

SpecFlow == Init /\ [][NextFlow]_vars

(* Calls of the pure functions: Init draws the arguments, the one step applies the
   function *)
InitCall(calls) ==
    /\ timer = DEFAULT_TIMER
    /\ tasks = <<>>
    /\ history = <<>>
    /\ settings = DEFAULT_SETTINGS
    /\ alarms = [timer |-> 0, badge |-> FALSE]
    /\ wake = 0
    /\ now = Epoch
    /\ ticks = 0
    /\ nextId = 0
    /\ response = "ok"
    /\ sent = <<>>
    /\ inflight = {}
    /\ args \in calls
    /\ result = NoCall

\* f is applied to the arguments drawn for it
Call(fn, value) ==
    /\ args.fn = fn
    /\ result = NoCall
    /\ result' = [fn |-> fn, value |-> value]
    /\ UNCHANGED <<timer, tasks, history, settings, alarms, wake, now, ticks, nextId, response,
                   sent, inflight, args>>

Phases == {"work", "break", "longBreak", "flow"}

\* method configurations: the presets, and fixed and flexible ones with every
\* cyclesBeforeLongBreak up to MaxCycles (0: missing or zero)
CycleMethods ==
    {DEFAULT_METHODS[k] : k \in DOMAIN DEFAULT_METHODS}
    \cup {mkMethod("custom", f, 30, 5, 15, c) : f \in BOOLEAN, c \in 0..MaxCycles}

NextPhaseCalls ==
    {[fn |-> "nextPhase", timer |-> [DEFAULT_TIMER EXCEPT !.phase = ph, !.cycleCount = cc],
      method |-> m] : ph \in Phases, cc \in 0..MaxCycleCount, m \in CycleMethods}

CallNextPhase == Call("nextPhase", nextPhase(args.timer, args.method))

SpecNextPhase == InitCall(NextPhaseCalls) /\ [][CallNextPhase]_vars

\* method configurations with every combination of minutes from -1 to MaxMinutes
\* (0: missing or zero), and the presets
MinuteMethods ==
    {DEFAULT_METHODS[k] : k \in DOMAIN DEFAULT_METHODS}
    \cup {mkMethod("custom", f, w, b, l, 4) :
            f \in BOOLEAN, w \in -1..MaxMinutes, b \in -1..MaxMinutes, l \in -1..MaxMinutes}

PhaseDurationCalls ==
    {[fn |-> "computePhaseDuration", method |-> m, phase |-> ph] :
        m \in MinuteMethods, ph \in Phases}

CallComputePhaseDuration ==
    Call("computePhaseDuration", computePhaseDuration(args.method, args.phase))

SpecPhaseDuration == InitCall(PhaseDurationCalls) /\ [][CallComputePhaseDuration]_vars

\* timestamps: none (0), and whole minutes up to MaxSkew before and after Date.now()
Timestamps == {0} \cup {Epoch + k * 60000 : k \in -MaxSkew..MaxSkew}

\* stored remainders: none, one millisecond, and whole minutes up to MaxSkew
Remainders == {1} \cup {k * 60000 : k \in 0..MaxSkew}

RemainingCalls ==
    {[fn |-> f,
      timer |-> [DEFAULT_TIMER EXCEPT !.methodKey = m, !.phase = ph, !.isRunning = r,
                                      !.startTime = st, !.endTime = et, !.remainingMs = rem],
      method |-> DEFAULT_METHODS[m]] :
        f \in {"computeRemaining", "popupComputeRemaining", "remainingMs"},
        m \in MethodArgs, ph \in {"work", "break"}, r \in BOOLEAN,
        st \in Timestamps, et \in Timestamps, rem \in Remainders}

NextRemaining ==
    \/ Call("computeRemaining", computeRemaining(args.timer, args.method))
    \/ Call("popupComputeRemaining", popupComputeRemaining(args.timer, args.method))
    \/ Call("remainingMs", remainingMs(args.timer))

SpecRemaining == InitCall(RemainingCalls) /\ [][NextRemaining]_vars

\* the values of a key: null, two primitives, the arrays of up to MaxLen elements
Leaves ==
    {null, prim("x"), prim("y")} \cup {array([i \in 1..n |-> "x"]) : n \in 0..MaxLen}

objectsOver(keys, values) == {object(f) : f \in UNION {[K -> values] : K \in SUBSET keys}}

\* mappings over the keys a and b whose values are leaves or mappings over the key p
MergeValues == objectsOver({"a", "b"}, Leaves \cup objectsOver({"p"}, Leaves))

MergeCalls == {[fn |-> "mergeDefaults", current |-> c, defaults |-> d] :
                c \in MergeValues, d \in MergeValues}

CallMergeDefaults == Call("mergeDefaults", mergeDefaults(args.current, args.defaults))

SpecMerge == InitCall(MergeCalls) /\ [][CallMergeDefaults]_vars

\* what may be found under timer, tasks and history in a damaged store
StoredValues ==
    {null, prim("x"), emptyObject, object([k \in {"phase"} |-> prim("break")])}
    \cup {array([i \in 1..n |-> "t1"]) : n \in 0..MaxLen}

\* what may be found under the key state: nothing, null, a primitive, or a mapping with
\* any of timer, tasks and history, each holding any of the values above
StoredStates ==
    {undefined, null, prim("x")} \cup objectsOver({"timer", "tasks", "history"}, StoredValues)

ServeCalls ==
    {[fn |-> "serve", type |-> t, stored |-> st] :
        t \in MESSAGE_HANDLERS \ {"updateSettings"}, st \in StoredStates}

CallServe == Call("serve", serve(args.type, args.stored))

SpecServe == InitCall(ServeCalls) /\ [][CallServe]_vars

(* A long-used history: n flow sessions of 1 ms each, back to back, before Epoch *)
usedHistory(n) ==
    [i \in 1..n |-> [methodKey |-> "flowtime", phase |-> "flow", durationMs |-> 1,
                     startedAt |-> Epoch - i - 1, endedAt |-> Epoch - i, taskId |-> NULL]]

InitHist ==
    /\ timer = [DEFAULT_TIMER EXCEPT !.methodKey = "flowtime", !.phase = "break"]
    /\ tasks = <<>>
    /\ history \in {usedHistory(HISTORY_MAX - 1), usedHistory(HISTORY_MAX)}
    /\ settings = DEFAULT_SETTINGS
    /\ alarms = [timer |-> 0, badge |-> FALSE]
    /\ wake = 0
    /\ now = Epoch
    /\ ticks = 0
    /\ nextId = 0
    /\ response = "ok"
    /\ sent = <<>>
    /\ inflight = {}
    /\ args = NoCall
    /\ result = NoCall

NextHist ==
    \/ \E m \in MethodArgs : StartTimer(m, UNDEFINED)
    \/ \E nt \in BOOLEAN : HistoryRoom /\ CompleteFlowtime(nt)
    \/ FireAlarm
    \/ \E nt \in BOOLEAN, tt \in BOOLEAN : HistoryRoom /\ HandleAlarm(nt, tt)
    \/ \E d \in Delays : Advance(d, MaxTicks)

SpecHist == InitHist /\ [][NextHist]_vars

(* addTask and pauseTimer overlapping each other and the other handlers *)
NextRace ==
    \/ StartTimer("pomodoro", UNDEFINED)
    \/ \E e \in EstimateArgs : BeginAddTask(e)
    \/ BeginPauseTimer
    \/ \E h \in inflight : End(h)
    \/ \E e \in EstimateArgs : AddTask(e)
    \/ PauseTimer
    \/ FireAlarm
    \/ HistoryRoom /\ HandleAlarm(FALSE, FALSE)
    \/ \E d \in Delays : Advance(d, MaxTicks)

SpecRace == Init /\ [][NextRace]_vars

(* The command protocol served by service-worker.js: every request, at one instant *)
NextMsg ==
    \/ \E message \in Messages :
            /\ message.type = "completeFlowtime" => HistoryRoom
            /\ OnMessage(message)

SpecMsg == Init /\ [][NextMsg]_vars

(* The command protocol served through dispatchMessage of messages/handlers.js *)
DelegatedMessages ==
    Messages
    \cup {[type |-> "updateSettings", settings |-> p] : p \in SettingsPatches}
    \cup {[type |-> "addTask", estimate |-> e] : e \in EstimateArgs}

NextDelegated == \E message \in DelegatedMessages : OnMessageDelegated(message)

SpecDelegated == Init /\ [][NextDelegated]_vars

----------------------------------------------------------------------------
(* Properties *)

fixedMethod(tm, s) == ~getMethodConfig(tm.methodKey, s).flexible

\* a step of handleAlarm(ALARM_NAME)
AlarmHandled == \E nt \in BOOLEAN, tt \in BOOLEAN : HandleAlarm(nt, tt)

\* a step of completeFlowtime
FlowCompleted == \E nt \in BOOLEAN : CompleteFlowtime(nt)

\* C1: under Pomodoro, from a fresh timer, the phase selected after the 1st, 2nd and
\* 3rd completed work phase is break, and after the 4th it is longBreak
C1_LongBreakAfterFourth ==
    (/\ history # <<>>
     /\ Head(history).phase = "work"
     /\ timer.methodKey = "pomodoro"
     /\ timer.completedSessions \in 1..4)
    => timer.phase = (IF timer.completedSessions = 4 THEN "longBreak" ELSE "break")

\* C2: when handleAlarm has completed a work phase whose snapshot had activeTaskId = t,
\* the stored task t, and only t, has one more completed session, and is done once
\* its completed sessions reach its estimate
C2_TaskProgressStored ==
    [][(/\ AlarmHandled
        /\ timer.isRunning
        /\ timer.phase = "work"
        /\ timer.activeTaskId # NULL
        /\ history' # history)
       => tasks' = updateTaskProgress(timer, tasks)]_vars

lockedWork == settings.lockIn /\ timer.isRunning /\ timer.phase = "work"

rejectedUnchanged == response' = "error" /\ UNCHANGED <<timer, tasks, history, settings, alarms, wake>>

C4_StaleWakeupIgnored ==
    [][(AlarmHandled /\ ~timer.isRunning)
       => UNCHANGED <<timer, tasks, history, settings, alarms>>]_vars

\* a fired wake-up is waiting for a timer that was paused in mid-phase
C4_Witness == wake > 0 /\ ~timer.isRunning /\ timer.remainingMs > 0

\* C5: pausing a running fixed-method timer at t <= endTime leaves a timer that resumes,
\* at any later t', with endTime = t' + (endTime - t), also when endTime - t = 0
C5_PauseResumeKeepsRemaining ==
    [][(/\ PauseTimer
        /\ timer.isRunning
        /\ ~timer'.isRunning
        /\ fixedMethod(timer, settings)
        /\ now <= timer.endTime)
       => resumeBase(timer', getMethodConfig(timer'.methodKey, settings')) = timer.endTime - now]_vars

\* C6: completeFlowtime on a running flowtime timer prepends one entry (flowtime, flow,
\* max(1, now - startTime)) and stores phase break, not running, zeroed timing fields,
\* with cycleCount, completedSessions and tasks as they were; on any other timer it
\* changes nothing in the store or among the wake-ups
C6_CompleteFlowtime ==
    [][FlowCompleted =>
        IF timer.isRunning /\ timer.methodKey = "flowtime"
        THEN /\ history' # <<>>
             /\ Head(history').methodKey = "flowtime"
             /\ Head(history').phase = "flow"
             /\ Head(history').durationMs = Max(1, now - timer.startTime)
             /\ Tail(history') = SubSeq(history, 1, Len(history') - 1)
             /\ Len(history') \in {Len(history) + 1, HISTORY_MAX}
             /\ timer' = [timer EXCEPT !.phase = "break", !.isRunning = FALSE,
                                       !.startTime = 0, !.endTime = 0, !.remainingMs = 0]
             /\ tasks' = tasks
        ELSE UNCHANGED <<timer, tasks, history, settings, alarms, wake>>]_vars

\* a flow session of more than 1 ms has been saved for an active task and the timer
\* rests in the break phase
C6_Witness ==
    /\ history # <<>>
    /\ Head(history).phase = "flow"
    /\ Head(history).durationMs > 1
    /\ Head(history).endedAt = now
    /\ timer.phase = "break"
    /\ ~timer.isRunning
    /\ tasks # <<>>

newestFirst(h) == \A i \in 1..Len(h), j \in 1..Len(h) : i < j => h[i].endedAt >= h[j].endedAt

\* C7: the history never holds more than 200 entries and is ordered newest first; an
\* append to a history of 200 entries leaves 200: the new entry at the head, the former
\* first 199 behind it in their order, the oldest one gone
C7_HistoryCap ==
    /\ [](Len(history) <= HISTORY_MAX /\ newestFirst(history))
    /\ [][(Len(history) = HISTORY_MAX /\ history' # history)
          => /\ Len(history') = HISTORY_MAX
             /\ Head(history').endedAt = now
             /\ Tail(history') = SubSeq(history, 1, HISTORY_MAX - 1)]_vars

\* an entry has been appended to a full history
C7_Witness == Len(history) = HISTORY_MAX /\ Head(history).endedAt >= Epoch

\* C8: a stored timer that is not running has startTime = endTime = 0; one that is
\* running has a nonzero startTime and, under a fixed method, a nonzero endTime and
\* remainingMs = 0
C8_TimingFields ==
    /\ ~timer.isRunning => (timer.startTime = 0 /\ timer.endTime = 0)
    /\ timer.isRunning =>
        /\ timer.startTime # 0
        /\ fixedMethod(timer, settings) => (timer.endTime # 0 /\ timer.remainingMs = 0)

\* C9: when handleAlarm processes a running phase, the history entry is stored and the
\* stored timer leaves the completed phase, whether or not the notification or the
\* break tab throws
C9_CollaboratorFailureHarmless ==
    [][(AlarmHandled /\ timer.isRunning)
       => /\ history' # <<>>
          /\ Head(history').phase = timer.phase
          /\ Head(history').endedAt = now
          /\ timer'.phase = nextPhase(timer, getMethodConfig(timer.methodKey, settings)).phase]_vars

\* C10, for the calls that take effect: after pauseTimer on a running timer, after
\* resetTimer, and after completeFlowtime on a running flowtime timer (none of them
\* rejected), neither the one-shot nor the periodic badge wake-up is pending
C10_WakeupsCancelled ==
    [][(\/ PauseTimer /\ timer.isRunning /\ ~pauseBlocked(timer, settings)
        \/ ResetTimer /\ ~resetBlocked(timer, settings)
        \/ FlowCompleted /\ timer.isRunning /\ timer.methodKey = "flowtime")
       => (alarms'.timer = 0 /\ ~alarms'.badge)]_vars

\* a step that serves a request
Command == \E message \in Messages : OnMessage(message)

\* a step that refuses a request: lock-in, or a type the switch does not know
Refused ==
    \/ PauseTimer /\ timer.isRunning /\ pauseBlocked(timer, settings)
    \/ ResetTimer /\ resetBlocked(timer, settings)
    \/ UnknownMessage

\* C11: a request that changes the stored aggregate sends exactly one stateUpdated
\* message, whose payload is the content of the store after the write; no request sends
\* a message with any other payload; a refused request (lock-in, unknown type) sends none
C11_BroadcastAfterSave ==
    [][Command =>
        /\ sent' \in {<<>>, <<store'>>}
        /\ persisted' # persisted => sent' = <<store'>>
        /\ Refused => sent' = <<>>]_vars

\* a task has been added while the timer runs, and the message sent for the last request
\* carries both
C11_Witness ==
    /\ sent = <<store>>
    /\ timer.isRunning
    /\ tasks # <<>>
    /\ response = "ok"

\* a step that serves a request whose type is not one of the protocol's
UnknownRequest ==
    \E message \in Messages : message.type \notin ProtocolTypes /\ OnMessage(message)

\* C14: a request of an unknown type is answered with an error and leaves the stored
\* aggregate, the settings, the pending wake-ups and the handlers in flight as they were
C14_UnknownMessageHarmless ==
    [][UnknownRequest =>
        /\ response' # "ok"
        /\ UNCHANGED <<timer, tasks, history, settings, alarms, wake, inflight>>]_vars

\* an unknown request has just been answered while a timer runs with its wake-up pending
C14_Witness ==
    /\ response = UNKNOWN_MESSAGE
    /\ timer.isRunning
    /\ alarms.timer # 0
    /\ tasks # <<>>

\* C15: no request whose type is one of the protocol's twelve is answered with an
\* unknown-message error by the dispatcher
C15_EveryTypeRouted ==
    [][\A message \in Messages :
          (message.type \in ProtocolTypes /\ OnMessageDelegated(message))
          => response' \notin {UNKNOWN_MESSAGE, UNKNOWN_TYPE}]_vars

\* C16: while the timer runs, resetTimer is rejected exactly when pauseTimer is, which
\* is exactly when lock-in is on, the phase is work and the method is not flexible
C16_ResetRejectedAsPause ==
    timer.isRunning =>
        /\ resetBlocked(timer, settings) <=> pauseBlocked(timer, settings)
        /\ pauseBlocked(timer, settings) <=> (lockedWork /\ fixedMethod(timer, settings))

\* a step in which an in-flight handler saves
Saved(h) == h \in inflight /\ End(h)

\* C12: when an in-flight handler saves, the stored aggregate becomes the one it loaded
\* with only its own change applied (addTask: its task in front of the tasks it loaded;
\* pauseTimer: the paused form of the timer it loaded), so whatever another handler
\* stored in between (a task, a history entry, a pause) is gone
C12_LastWriteWins ==
    [][\A h \in inflight : Saved(h) =>
          /\ history' = h.loaded.history
          /\ settings' = h.loaded.settings
          /\ IF h.op = "addTask"
             THEN timer' = h.loaded.timer /\ tasks' = <<h.task>> \o h.loaded.tasks
             ELSE tasks' = h.loaded.tasks /\ timer' = h.timer]_vars

\* no handler is in flight, the added task is stored, and the stored timer runs a fixed
\* phase although both of its wake-ups were cancelled and none is waiting: the pause saved
\* between the load and the save of addTask is gone
C12_Witness ==
    /\ inflight = {}
    /\ tasks # <<>>
    /\ timer.isRunning
    /\ fixedMethod(timer, settings)
    /\ alarms = [timer |-> 0, badge |-> FALSE]
    /\ wake = 0

\* C17: nextPhase returns flow for a flexible method; for a fixed one, from work it
\* returns longBreak when (cycleCount + 1) mod N = 0 and break otherwise, with N =
\* cyclesBeforeLongBreak, or 4 when that is missing or zero, and from break and longBreak
\* it returns work; the longBreak flag is true exactly when the phase is longBreak
C17_NextPhase ==
    result.fn = "nextPhase" =>
        LET tm == args.timer
            method == args.method
            N == IF method.cyclesBeforeLongBreak \in 1..MaxCycles
                 THEN method.cyclesBeforeLongBreak ELSE 4
        IN  /\ method.flexible => result.value.phase = "flow"
            /\ (~method.flexible /\ tm.phase = "work") =>
                    result.value.phase =
                        (IF (tm.cycleCount + 1) % N = 0 THEN "longBreak" ELSE "break")
            /\ (~method.flexible /\ tm.phase \in {"break", "longBreak"}) =>
                    result.value.phase = "work"
            /\ result.value.longBreak <=> result.value.phase = "longBreak"

\* nextPhase has returned longBreak for a method without cyclesBeforeLongBreak
C17_Witness ==
    /\ result.fn = "nextPhase"
    /\ result.value.phase = "longBreak"
    /\ args.method.cyclesBeforeLongBreak = 0
    /\ args.timer.cycleCount = 7

\* the minutes field computePhaseDuration reads for a phase
minutesOf(method, phase) ==
    IF phase = "longBreak" THEN method.longBreakMinutes
    ELSE IF phase = "break" THEN method.shortBreakMinutes
    ELSE method.workMinutes

\* C19: for a fixed method computePhaseDuration is never negative and is the minutes of
\* the phase times 60000 (longBreakMinutes for longBreak, shortBreakMinutes for break,
\* workMinutes for work), or 0 when those minutes are negative; for a flexible method
\* it is 0 for every phase
C19_PhaseDuration ==
    result.fn = "computePhaseDuration" =>
        /\ result.value >= 0
        /\ args.method.flexible => result.value = 0
        /\ (~args.method.flexible /\ args.phase \in {"work", "break", "longBreak"}) =>
                result.value = (IF minutesOf(args.method, args.phase) < 0 THEN 0
                                ELSE minutesOf(args.method, args.phase) * 60000)

\* computePhaseDuration has returned 0 for a negative break and, in another call, two
\* minutes for a long break
C19_Witness ==
    /\ result.fn = "computePhaseDuration"
    /\ ~args.method.flexible
    /\ \/ args.phase = "break" /\ args.method.shortBreakMinutes < 0 /\ result.value = 0
       \/ args.phase = "longBreak" /\ result.value = 120000

RECURSIVE Merged(_, _, _)
Merged(r, c, d) ==
    /\ r.t = "object"
    /\ DOMAIN r.o = DOMAIN c.o \cup DOMAIN d.o
    /\ \A key \in DOMAIN r.o :
          IF key \notin DOMAIN c.o THEN r.o[key] = d.o[key]
          ELSE IF c.o[key].t \in {"array", "null"} THEN r.o[key] = c.o[key]
          ELSE IF c.o[key].t = "object"
              THEN IF key \in DOMAIN d.o /\ d.o[key].t = "object"
                   THEN Merged(r.o[key], c.o[key], d.o[key])
                   ELSE key \in DOMAIN d.o \/ Merged(r.o[key], c.o[key], emptyObject)
          ELSE r.o[key] = c.o[key]

\* C18: for every key, mergeDefaults(current, defaults) has current's value as it is
\* when that is an array or null, the recursive merge with the default's value when it
\* is a nested mapping, current's value when it is any other value, and the default's
\* value when current lacks the key; so it has every key of defaults
C18_MergeDefaults ==
    result.fn = "mergeDefaults" =>
        /\ Merged(result.value, args.current, args.defaults)
        /\ DOMAIN args.defaults.o \subseteq DOMAIN result.value.o

\* an empty array of current has replaced a non-empty default, and a nested mapping
\* has been completed from the default's
C18_Witness ==
    /\ result.fn = "mergeDefaults"
    /\ args.current.o = [k \in {"a", "b"} |-> IF k = "a" THEN array(<<>>) ELSE emptyObject]
    /\ args.defaults.o = [k \in {"a", "b"} |->
                            IF k = "a" THEN array(<<"x">>)
                            ELSE object([j \in {"p"} |-> prim("y")])]
    /\ result.value.o["a"] = array(<<>>)
    /\ result.value.o["b"] = object([j \in {"p"} |-> prim("y")])

\* timer is a mapping, tasks and history are arrays
structurallyValid(state) ==
    /\ state.t = "object"
    /\ property(state, "timer").t = "object"
    /\ property(state, "tasks").t = "array"
    /\ property(state, "history").t = "array"

\* C13: when the value stored under state is not structurally valid (timer is not a
\* mapping, or tasks or history is not an array), loading it yields absent, and getState,
\* addTask, updateTask, deleteTask, setActiveTask and setMethod then work on the default
\* aggregate and end with a structurally valid aggregate
C13_InvalidStateIsAbsent ==
    (/\ result.fn = "serve"
     /\ args.stored.t \notin {"undefined", "null"}
     /\ ~structurallyValid(args.stored))
    => /\ loadState(args.stored) = undefined
       /\ result.value.response = "ok"
       /\ result.value.state = updatedState(args.type, JS_DEFAULT_STATE)
       /\ structurallyValid(result.value.state)

\* a step in which handleAlarm runs to its end on a running timer: the entry is stored
PhaseCompleted == timer.isRunning /\ history' # history /\ AlarmHandled

\* C21: each time handleAlarm completes a work phase of a fixed method the stored
\* cycleCount is one greater than before; completing a break or a long break leaves it
\* as it was
C21_CycleCountCounts ==
    [][(PhaseCompleted /\ fixedMethod(timer, settings))
       => timer'.cycleCount =
            (IF timer.phase = "work" THEN timer.cycleCount + 1 ELSE timer.cycleCount)]_vars

\* the next phase is to be started at once: the method is fixed and the auto-start
\* setting of that phase is on
autoStarted(next, method, s) ==
    /\ ~method.flexible
    /\ \/ next = "work" /\ s.autoStartWork
       \/ next \in {"break", "longBreak"} /\ s.autoStartBreaks

\* C22: when handleAlarm has finished, the stored timer is in the next phase; if that
\* phase is work and autoStartWork is set, or a break and autoStartBreaks is set, and the
\* method is fixed, it runs from now to endTime = now + the phase's duration with the
\* one-shot wake-up at endTime; otherwise (and always for a flexible method) it does not
\* run and no phase-completion wake-up is pending
C22_AutoStart ==
    [][PhaseCompleted =>
        LET method == getMethodConfig(timer.methodKey, settings)
            next == nextPhase(timer, method).phase
        IN  /\ timer'.phase = next
            /\ IF autoStarted(next, method, settings)
               THEN /\ timer'.isRunning
                    /\ timer'.startTime = now
                    /\ timer'.endTime = now + computePhaseDuration(method, next)
                    /\ alarms'.timer = timer'.endTime
               ELSE /\ ~timer'.isRunning
                    /\ alarms'.timer = 0]_vars

\* a work phase was completed and its break started at once, that break was completed
\* and, autoStartWork being off, the timer rests in the work phase with no wake-up
C22_Witness ==
    /\ Len(history) >= 2
    /\ history[2].phase = "work"
    /\ history[1].phase = "break"
    /\ history[1].startedAt = history[2].endedAt
    /\ history[1].endedAt = now
    /\ ~settings.autoStartWork
    /\ settings.autoStartBreaks
    /\ timer.phase = "work"
    /\ ~timer.isRunning
    /\ alarms.timer = 0

\* C23: when handleAlarm processes a running timer it prepends exactly one history entry,
\* with the completing phase, the timer's method, the activeTaskId of the completing
\* snapshot and durationMs = max(0, endTime - startTime), and stores that snapshot with
\* startTime, endTime and remainingMs zeroed
C23_HistoryEntry ==
    [][(AlarmHandled /\ timer.isRunning) =>
        /\ Len(history') = Len(history) + 1
        /\ Tail(history') = history
        /\ Head(history').phase = timer.phase
        /\ Head(history').methodKey = timer.methodKey
        /\ Head(history').taskId = timer.activeTaskId
        /\ Head(history').durationMs = Max(0, timer.endTime - timer.startTime)
        /\ \E i \in DOMAIN sent' :
              /\ sent'[i].history = history'
              /\ ~sent'[i].timer.isRunning
              /\ sent'[i].timer.startTime = 0
              /\ sent'[i].timer.endTime = 0
              /\ sent'[i].timer.remainingMs = 0]_vars

\* a step of one of the operations that leave completedSessions alone
SessionsKept ==
    \/ \E m \in MethodArgs \cup {UNDEFINED}, ph \in PhaseArgs : StartTimer(m, ph)
    \/ PauseTimer
    \/ ResumeTimer
    \/ FlowCompleted
    \/ \E m \in MethodArgs : SetMethod(m)
    \/ \E id \in TaskIdArgs : SetActiveTask(id)

\* C24: completedSessions is one greater after handleAlarm has completed a work phase,
\* and is as it was after it has completed a break or a long break and after startTimer,
\* pauseTimer, resumeTimer, completeFlowtime, setMethod and setActiveTask
C24_CompletedSessions ==
    /\ [][PhaseCompleted =>
            timer'.completedSessions =
                (IF timer.phase = "work" THEN timer.completedSessions + 1
                 ELSE timer.completedSessions)]_vars
    /\ [][timer'.completedSessions # timer.completedSessions => ~SessionsKept]_vars

\* the work phase of an active task has been completed and counted, and the break
\* that was started at once is running
C24_Witness ==
    /\ timer.completedSessions = 1
    /\ history # <<>>
    /\ Head(history).phase = "work"
    /\ Head(history).taskId # NULL
    /\ timer.phase = "break"
    /\ timer.isRunning

\* C25: startTimer at the instant now stores, for a flexible method, phase flow, running,
\* startTime = now, endTime = 0, remainingMs = 0 and leaves no phase-completion wake-up,
\* whatever phase was asked for; for a fixed method, the phase asked for (else the
\* current one), running, startTime = now, endTime = now + computePhaseDuration(method,
\* phase), remainingMs = 0 and the one-shot wake-up at endTime; cycleCount,
\* completedSessions, activeTaskId, tasks and history are as they were
C25_StartTimer ==
    [][\A m \in MethodArgs \cup {UNDEFINED}, ph \in PhaseArgs :
        StartTimer(m, ph) =>
            LET method == getMethodConfig(IF m = UNDEFINED THEN timer.methodKey ELSE m,
                                          settings)
                phase == IF ph = UNDEFINED THEN timer.phase ELSE ph
            IN  /\ timer'.isRunning
                /\ timer'.startTime = now
                /\ timer'.remainingMs = 0
                /\ IF method.flexible
                   THEN /\ timer'.phase = "flow"
                        /\ timer'.endTime = 0
                        /\ alarms'.timer = 0
                   ELSE /\ timer'.phase = phase
                        /\ timer'.endTime = now + computePhaseDuration(method, phase)
                        /\ alarms'.timer = timer'.endTime
                /\ timer'.cycleCount = timer.cycleCount
                /\ timer'.completedSessions = timer.completedSessions
                /\ timer'.activeTaskId = timer.activeTaskId
                /\ tasks' = tasks
                /\ history' = history]_vars

\* startTimer('flowtime') has just been served while the break that followed a completed
\* work phase of an active task was running: the flow phase runs from now, the session
\* count, the task and the history entry are kept, and the break's wake-up is gone
C25_Witness ==
    /\ sent = <<store>>
    /\ timer.methodKey = "flowtime"
    /\ timer.phase = "flow"
    /\ timer.isRunning
    /\ timer.startTime = now
    /\ timer.completedSessions = 1
    /\ timer.activeTaskId = 1
    /\ tasks # <<>>
    /\ history # <<>>
    /\ Head(history).phase = "work"
    /\ alarms.timer = 0

\* C26: pauseTimer on a running timer, when it is not rejected, stores isRunning false,
\* startTime = endTime = 0 and remainingMs = max(0, endTime - now) for a fixed method,
\* max(0, now - startTime) for a flexible one, and leaves the other fields of the timer,
\* the tasks, the history and the settings as they were; on a timer that is not running
\* it changes nothing and is answered without an error, also under lock-in
C26_PauseTimer ==
    [][PauseTimer =>
        IF ~timer.isRunning
        THEN /\ response' = "ok"
             /\ UNCHANGED <<timer, tasks, history, settings, alarms>>
        ELSE response' # "error" =>
             /\ timer' = [timer EXCEPT
                            !.isRunning = FALSE, !.startTime = 0, !.endTime = 0,
                            !.remainingMs = IF fixedMethod(timer, settings)
                                            THEN Max(0, timer.endTime - now)
                                            ELSE Max(0, now - timer.startTime)]
             /\ UNCHANGED <<tasks, history, settings>>]_vars

\* under lock-in, the break that followed a completed work phase of an active task has
\* been paused: its whole duration remains, and the session count, the task and the
\* history entry are kept
C26_Witness ==
    /\ settings.lockIn
    /\ ~timer.isRunning
    /\ timer.phase = "break"
    /\ timer.remainingMs = computePhaseDuration(getMethodConfig(timer.methodKey, settings), "break")
    /\ timer.remainingMs > 0
    /\ timer.completedSessions = 1
    /\ timer.activeTaskId = 1
    /\ tasks # <<>>
    /\ history # <<>>
    /\ alarms = [timer |-> 0, badge |-> FALSE]

\* the focus time a flexible timer has accumulated: what has elapsed since startTime
\* while it runs, what pauseTimer captured while it does not
focusTime(tm) == IF tm.isRunning THEN now - tm.startTime ELSE tm.remainingMs

\* C27: for a flexible method the elapsed focus time is kept by a pause and by the resume
\* that follows it (right after the resume, now - startTime is what the pause captured),
\* it grows with the clock only while the timer runs, and completeFlowtime records it as
\* durationMs: the paused interval is left out and the time run before the pause is in
C27_FlowElapsedKept ==
    [][~fixedMethod(timer, settings) =>
        /\ (PauseTimer /\ timer.isRunning) =>
                timer'.remainingMs = now - timer.startTime
        /\ (ResumeTimer /\ ~timer.isRunning) =>
                now - timer'.startTime = timer.remainingMs
        /\ now' # now =>
                focusTime(timer)' =
                    focusTime(timer) + (IF timer.isRunning THEN now' - now ELSE 0)
        /\ (FlowCompleted /\ flowCompletable(timer)) =>
                Head(history').durationMs = Max(1, focusTime(timer))]_vars

\* a flow session ran a minute, was paused for a minute, was resumed and has run another
\* minute: two of the three minutes gone by count as elapsed
C27_Witness ==
    /\ timer.methodKey = "flowtime"
    /\ timer.isRunning
    /\ timer.remainingMs = msFromMinutes(1)
    /\ now - timer.startTime = msFromMinutes(2)
    /\ now = Epoch + msFromMinutes(3)

\* C28: resetTimer, when it is not rejected, stores the default timer (phase work, not
\* running, startTime = endTime = remainingMs = 0, cycleCount 0, completedSessions 0, no
\* active task) with methodKey = settings.selectedMethod, and leaves the tasks, the
\* history and the settings as they were
C28_ResetTimer ==
    [][(ResetTimer /\ response' # "error") =>
        /\ timer' = [methodKey |-> settings.selectedMethod, phase |-> "work",
                     isRunning |-> FALSE, startTime |-> 0, endTime |-> 0, remainingMs |-> 0,
                     cycleCount |-> 0, completedSessions |-> 0, activeTaskId |-> NULL]
        /\ UNCHANGED <<tasks, history, settings>>]_vars

\* after a work phase of an active task was completed under Pomodoro and Flowtime was
\* selected, the timer has been reset: it is the default one with Flowtime, the task
\* list and the history entry are kept
C28_Witness ==
    /\ history # <<>>
    /\ Head(history).phase = "work"
    /\ Head(history).taskId = 1
    /\ tasks # <<>>
    /\ settings.selectedMethod = "flowtime"
    /\ timer = [DEFAULT_TIMER EXCEPT !.methodKey = "flowtime"]
    /\ alarms = [timer |-> 0, badge |-> FALSE]
    /\ response = "ok"

\* C29: setMethod(k) stores timer.methodKey = k, timer.phase = work and
\* settings.selectedMethod = k and leaves every other field of the timer and of the
\* settings, the tasks, the history and the pending wake-ups as they were, also while the
\* timer runs
C29_SetMethod ==
    [][\A k \in MethodArgs :
        SetMethod(k) =>
            /\ timer' = [timer EXCEPT !.methodKey = k, !.phase = "work"]
            /\ settings' = [settings EXCEPT !.selectedMethod = k]
            /\ UNCHANGED <<tasks, history, alarms, wake>>]_vars

\* Flowtime has been selected while the break after a counted work phase was running:
\* the timer still runs to the break's endTime, whose wake-up is still pending, now with
\* Flowtime and the phase work
C29_Witness ==
    /\ timer.methodKey = "flowtime"
    /\ settings.selectedMethod = "flowtime"
    /\ timer.phase = "work"
    /\ timer.isRunning
    /\ timer.endTime # 0
    /\ alarms.timer = timer.endTime
    /\ timer.completedSessions = 1
    /\ tasks # <<>>
    /\ history # <<>>
    /\ Head(history).endedAt = timer.startTime

\* C30: for a fixed-method timer that is not running, with remainingMs = 0 and
\* endTime = 0, computeRemaining (timer.js and the popup's copy) returns the full
\* duration of the timer's phase, computePhaseDuration(method, timer.phase)
C30_FallbackFullPhase ==
    (/\ result.fn \in {"computeRemaining", "popupComputeRemaining"}
     /\ ~args.method.flexible
     /\ ~args.timer.isRunning
     /\ args.timer.remainingMs = 0
     /\ args.timer.endTime = 0)
    => result.value = computePhaseDuration(args.method, args.timer.phase)

\* C31: the remaining value getState answers with is what the rules of computeRemaining
\* give for the stored timer and its method: the elapsed time for a running flexible
\* timer, the frozen remainingMs for a paused one, max(0, endTime - now) for a running
\* fixed one, the full phase duration for an idle fixed one with no remainder; and
\* getState writes nothing to the store
C31_GetStateRemaining ==
    [][GetState =>
        LET method == getMethodConfig(timer.methodKey, settings)
            remaining == remainingMs(timer)
        IN  /\ (method.flexible /\ timer.isRunning) =>
                    remaining = Max(0, now - timer.startTime)
            /\ (method.flexible /\ ~timer.isRunning) => remaining = timer.remainingMs
            /\ (~method.flexible /\ timer.isRunning /\ timer.endTime # 0) =>
                    remaining = Max(0, timer.endTime - now)
            /\ (~method.flexible /\ ~timer.isRunning /\ timer.remainingMs # 0) =>
                    remaining = timer.remainingMs
            /\ (~method.flexible /\ ~timer.isRunning /\ timer.remainingMs = 0
                    /\ timer.endTime = 0) =>
                    remaining = computePhaseDuration(method, timer.phase)
            /\ UNCHANGED <<timer, tasks, history, settings, alarms, wake>>]_vars

\* C32: a stored history entry stays in every later stored history, unmodified and in
\* the same order, until it is the oldest one beyond the cap of 200: each step leaves
\* the history as it is or puts one new entry in front of it (dropping the 200th), and
\* only handleAlarm and completeFlowtime do the latter
C32_HistoryImmutable ==
    [][history' # history =>
        /\ history' # <<>>
        /\ Len(history') = (IF Len(history) < HISTORY_MAX THEN Len(history) + 1
                            ELSE HISTORY_MAX)
        /\ Tail(history') = SubSeq(history, 1, Len(history') - 1)
        /\ AlarmHandled \/ FlowCompleted]_vars


\* C33: when no handler is in flight (none suspended at an await, no delivered wake-up
\* waiting for handleAlarm) and the stored timer is running under a fixed-duration
\* method, the phase-completion alarm is pending and scheduled at the timer's endTime
C33_OneWakeupAtEndTime ==
    (/\ inflight = {}
     /\ wake = 0
     /\ timer.isRunning
     /\ fixedMethod(timer, settings))
    => (alarms.timer # 0 /\ alarms.timer = timer.endTime)


----------------------------------------------------------------------------
(* startTimer, pauseTimer and resumeTimer overlapping, each in the three pieces its
   awaits cut it into: the load (with the timer built from it), the call of
   chrome.alarms, and saveAndBroadcast *)

\* handlers suspended at an await at the same time
MaxOverlap == 2

\* the commands issued in a run; ticks counts them together with the clock advances
MaxLiveTicks == 3

TimerCommands == {"startTimer", "pauseTimer", "resumeTimer"}

\* handler op up to its first await after loadState(): the timer it will save is built
\* from the aggregate it loaded and from Date.now()
Loaded(op) ==
    /\ Cardinality(inflight) < MaxOverlap
    /\ ticks < MaxLiveTicks
    /\ ticks' = ticks + 1
    /\ op = "pauseTimer" => (timer.isRunning /\ ~pauseBlocked(timer, settings))
    /\ inflight' = inflight \cup
            {[op |-> op, loaded |-> store, stage |-> "loaded",
              timer |-> CASE op = "startTimer" ->
                                startTimer(timer, settings, alarms, UNDEFINED, UNDEFINED).timer
                          [] op = "resumeTimer" -> resumeTimer(timer, settings, alarms).timer
                          [] OTHER -> pausedTimer(timer, settings)]}
    /\ UNCHANGED <<timer, tasks, history, settings, alarms, wake, now, nextId, response,
                   sent, args, result>>

\* the handler's await of chrome.alarms: pauseTimer clears both alarms, a flexible
\* startTimer clears ALARM_NAME, a fixed startTimer or resumeTimer creates it at the
\* endTime it computed, a flexible resumeTimer calls nothing
Scheduled(h) ==
    /\ h \in inflight
    /\ h.stage = "loaded"
    /\ inflight' = (inflight \ {h}) \cup {[h EXCEPT !.stage = "scheduled"]}
    /\ alarms' = CASE h.op = "pauseTimer" -> [timer |-> 0, badge |-> FALSE]
                   [] h.op = "resumeTimer" /\ ~fixedMethod(h.timer, h.loaded.settings) -> alarms
                   [] OTHER -> [alarms EXCEPT !.timer = h.timer.endTime]
    /\ UNCHANGED <<timer, tasks, history, settings, wake, now, ticks, nextId, response, sent,
                   args, result>>

\* the handler's saveAndBroadcast of the aggregate it loaded with the timer it built,
\* then ensureBadgeUpdates in startTimer and resumeTimer
Saved3(h) ==
    /\ h \in inflight
    /\ h.stage = "scheduled"
    /\ inflight' = inflight \ {h}
    /\ timer' = h.timer
    /\ tasks' = h.loaded.tasks
    /\ history' = h.loaded.history
    /\ settings' = h.loaded.settings
    /\ alarms' = IF h.op = "pauseTimer" THEN alarms
                 ELSE ensureBadgeUpdates(alarms, h.loaded.settings)
    /\ response' = "ok"
    /\ sent' = broadcastState(store')
    /\ UNCHANGED <<wake, now, ticks, nextId, args, result>>

\* the user has switched both auto-start settings off
InitLive ==
    /\ timer = DEFAULT_TIMER
    /\ tasks = <<>>
    /\ history = <<>>
    /\ settings = [DEFAULT_SETTINGS EXCEPT !.autoStartBreaks = FALSE, !.autoStartWork = FALSE]
    /\ alarms = [timer |-> 0, badge |-> FALSE]
    /\ wake = 0
    /\ now = Epoch
    /\ ticks = 0
    /\ nextId = 0
    /\ response = "ok"
    /\ sent = <<>>
    /\ inflight = {}
    /\ args = NoCall
    /\ result = NoCall

\* the clock reaches the instant the pending wake-up is due; the awaits of a handler
\* take milliseconds and a phase minutes, so no handler is still suspended by then
AlarmDue == inflight = {} /\ Advance(alarms.timer - now, 2 * MaxLiveTicks + 1)

Suspended == \E h \in inflight : Scheduled(h) \/ Saved3(h)

NextLive ==
    \/ \E op \in TimerCommands : Loaded(op)
    \/ \E h \in inflight : Scheduled(h)
    \/ \E h \in inflight : Saved3(h)
    \/ AlarmDue
    \/ FireAlarm
    \/ HandleAlarm(FALSE, FALSE)

\* fairness: time advances, a due wake-up is delivered and handled, and a handler
\* suspended at an await is resumed
SpecLive ==
    /\ InitLive
    /\ [][NextLive]_vars
    /\ WF_vars(AlarmDue)
    /\ WF_vars(FireAlarm)
    /\ WF_vars(HandleAlarm(FALSE, FALSE))
    /\ WF_vars(Suspended)

\* C34: a timer running under a fixed-duration method does not stay running for ever
\* with its phase never completed: with auto-start off and the commands of a run finite
\* in number, the phase is completed by handleAlarm or the timer is paused, so the
\* stored timer eventually is not running - also when startTimer, pauseTimer and
\* resumeTimer overlap
C34_PhaseEventuallyEnds ==
    (timer.isRunning /\ fixedMethod(timer, settings)) ~> ~timer.isRunning

\* C35: handleAlarm completes a phase (stores its history entry and moves to the next
\* phase) only when the stored timer is running with a nonzero endTime that has been
\* reached; a wake-up left over from before a pause and resume, a restart, a method
\* switch or a flow completion completes nothing whose end has not arrived
C35_CompletesOnlyAtEnd ==
    [][PhaseCompleted => (timer.endTime # 0 /\ now >= timer.endTime)]_vars


\* C36: with settings.lockIn true before and after, a step of a timer command taken
\* while a work phase of a fixed method runs before its endTime leaves the timer
\* running in the work phase
C36_LockInHolds ==
    [][(/\ settings.lockIn
        /\ settings'.lockIn
        /\ timer.isRunning
        /\ timer.phase = "work"
        /\ fixedMethod(timer, settings)
        /\ now < timer.endTime
        /\ ~AlarmHandled)
       => (timer'.isRunning /\ timer'.phase = "work")]_vars


\* C37: in every stored state, a running timer whose method is flexible is in phase
\* flow, and a timer in phase flow has a flexible method
C37_FlowIffFlexible ==
    /\ (timer.isRunning /\ ~fixedMethod(timer, settings)) => timer.phase = "flow"
    /\ timer.phase = "flow" => ~fixedMethod(timer, settings)


----------------------------------------------------------------------------
(* Fixed-duration phases that are paused, resumed and run to completion *)

\* the clock advances of such a run
MaxPauseTicks == 3

NextPaused ==
    \/ StartTimer(UNDEFINED, UNDEFINED)
    \/ PauseTimer
    \/ ResumeTimer
    \/ \E d \in Delays : Advance(d, MaxPauseTicks)
    \/ FireAlarm
    \/ HistoryRoom /\ HandleAlarm(FALSE, FALSE)

SpecPaused == Init /\ [][NextPaused]_vars

\* C38: the durationMs handleAlarm records for a completed phase of a fixed method is
\* the configured duration of that phase, the time run before a pause included, however
\* often the phase was paused and resumed
C38_DurationIsPhaseDuration ==
    [][(PhaseCompleted /\ fixedMethod(timer, settings) /\ timer.endTime # 0
        /\ now >= timer.endTime)
       => Head(history').durationMs =
            computePhaseDuration(getMethodConfig(timer.methodKey, settings), timer.phase)]_vars


\* C39: resumeTimer served while the timer is running leaves endTime, startTime and
\* the pending phase-completion alarm as they were
C39_ResumeRunningNoOp ==
    [][(timer.isRunning /\ ResumeTimer)
       => (/\ timer'.endTime = timer.endTime
           /\ timer'.startTime = timer.startTime
           /\ alarms'.timer = alarms.timer)]_vars


\* C40: in every stored state timer.activeTaskId is null or the id of a task in the
\* task list
C40_ActiveTaskExists ==
    timer.activeTaskId = NULL \/ \E i \in 1..Len(tasks) : tasks[i].id = timer.activeTaskId

====
